---- MODULE Spec2Model ----
(***************************************************************************)
(* Model of the scenario / mock web API of mitmproxy/tools/web/app.py.     *)
(*                                                                         *)
(* The request handlers of app.py are the actions.  The handlers run on    *)
(* one tornado event loop and never suspend, so each handler is one atomic *)
(* step.  The View addon (addScen, setScen, remove, newMatcher,            *)
(* switchMock, switchLearning, the capture of observed flows) and the      *)
(* RuleSet class are not part of app.py; they are modelled from the        *)
(* written specification and kept apart under "View" and "RuleSet" below.  *)
(*                                                                         *)
(* A python dict keeps insertion order, so self.scenarios is a sequence of *)
(* entries [name, flows, rules]: flows is the list scenarios[name][0],     *)
(* rules the dict scenarios[name][1] (flow id -> RuleSet).                 *)
(***************************************************************************)
EXTENDS Integers, Sequences, FiniteSets, TLC

\* ------------------------------------------------------------------ bounds
MaxFlows == 2       \* flows the proxy observes in one run
MaxRules == 1       \* rules stored under one label of one RuleSet
MaxRecords == 1     \* flow records in one uploaded capture
MaxStream == 2      \* flow records in one capture of the import specification
MaxList == 3        \* rules under one label in the rule specification
MaxConns == 3       \* websocket connections ever made
MaxMsgs == 2        \* broadcasts

\* ------------------------------------------------------------- input sets
\* scenario names a request path can carry: the routes use [^\/]*, which
\* also matches the empty name
Names == {"", "A", "B"}
Flows == 1..MaxFlows
Labels == {"Match"}
Fields == {1}
\* a capture header: parseable or not, and the matcher ids it maps
Headers == {[ok |-> TRUE, ids |-> {1}], [ok |-> FALSE, ids |-> {1}]}
\* a flow record of a capture: the record of flow f > 0, or Bad, a record
\* FlowReader cannot decode
Bad == 0
Records == {Bad, 1}
RECURSIVE SeqsUpTo(_, _)
SeqsUpTo(S, n) ==
    IF n = 0 THEN {<<>>}
    ELSE LET shorter == SeqsUpTo(S, n - 1)
         IN shorter \cup {Append(s, x) : s \in {t \in shorter : Len(t) = n - 1}, x \in S}
Streams == SeqsUpTo(Records, MaxRecords)
\* the captures of the import specification: any matcher ids in the header,
\* records of any flow
\* the rule specification: one scenario name, two distinguishable field maps, the Index of a
\* rule update (-1 asks for addRule), the index of a rule route ([0-9]+)
RuleNames == {"A"}
RuleFields == {1, 2}
PutIndices == -1..(MaxList + 1)
Indices == 0..MaxList
\* the websocket handlers ever constructed
Conns == 1..MaxConns
LongHeaders == [ok : {TRUE}, ids : SUBSET Flows] \cup {[ok |-> FALSE, ids |-> {}]}
LongStreams == SeqsUpTo({Bad} \cup Flows, MaxStream)

VARIABLES
    scenarios,  \* view.scenarios: ordered dict name -> (flows, rules)
    scenario,   \* view.scenario: name of the current scenario, "" = none
    learning,   \* view.learning
    mock,       \* view.mock
    view,       \* ids of the flows in the live flow store
    matchers,   \* ids registered through view.newMatcher
    nflows,     \* number of flows the proxy has observed so far
    last,       \* the request handled by the last step and its outcome
    connections,\* ClientConnection.connections
    life,       \* per websocket handler: "new", "open" (open ran), "closed" (on_close ran)
    inbox,      \* per websocket handler: messages written to its client
    sent,       \* number of broadcasts so far
    wslast      \* the websocket callback of the last step and its outcome

vars == <<scenarios, scenario, learning, mock, view, matchers, nflows, last>>
wsvars == <<connections, life, inbox, sent, wslast>>

\* ---------------------------------------------------------- python dict/list
HasKey(sc, n) == \E i \in 1..Len(sc) : sc[i].name = n
IndexOf(sc, n) == CHOOSE i \in 1..Len(sc) : sc[i].name = n
Keys(sc) == [i \in 1..Len(sc) |-> sc[i].name]
Get(sc, n) == sc[IndexOf(sc, n)]
Entry(n, fl, ru) == [name |-> n, flows |-> fl, rules |-> ru]
\* d[n] = (fl, ru): an existing key keeps its position, a new key goes last
SetItem(sc, n, fl, ru) ==
    IF HasKey(sc, n)
    THEN [sc EXCEPT ![IndexOf(sc, n)] = Entry(n, fl, ru)]
    ELSE Append(sc, Entry(n, fl, ru))
\* del d[n] / d.pop(n)
DelItem(sc, n) ==
    LET i == IndexOf(sc, n)
    IN [j \in 1..(Len(sc) - 1) |-> IF j < i THEN sc[j] ELSE sc[j + 1]]
SeqSet(s) == {s[i] : i \in 1..Len(s)}
\* list.remove(x): drops the first occurrence
ListRemove(s, x) ==
    LET i == CHOOSE k \in 1..Len(s) : s[k] = x /\ \A m \in 1..(k - 1) : s[m] # x
    IN [j \in 1..(Len(s) - 1) |-> IF j < i THEN s[j] ELSE s[j + 1]]
\* d.pop(k, None)
PopKey(d, k) == [x \in (DOMAIN d) \ {k} |-> d[x]]

\* ----------------------------------------------------------------- View
\* view.remove(flows): the flows leave the live store
ViewRemove(v, fl) == v \ fl
\* view.setScen(name): NotFound for a non-empty absent name, else current = name
SetScenOk(sc, n) == n = "" \/ HasKey(sc, n)
SetScen(sc, cur, n) == IF SetScenOk(sc, n) THEN n ELSE cur
\* view.addScen(name): inserts the empty scenario
AddScen(sc, n) == Append(sc, Entry(n, <<>>, <<>>))

\* --------------------------------------------------------------- RuleSet
\* a RuleSet maps a label to its rules, a rule list maps an index (from 0)
\* to the field map of the rule
EmptyRuleSet == <<>>
RuleList(rs, l) == IF l \in DOMAIN rs THEN rs[l] ELSE <<>>
Size(rl) == Cardinality(DOMAIN rl)
Done(rs) == [ok |-> TRUE, rs |-> rs]
Failed(rs) == [ok |-> FALSE, rs |-> rs]
\* RuleSet.addRule(label, fields): appends at the end of the label's list
AddRule(rs, l, x) ==
    LET rl == RuleList(rs, l)
        n == Size(rl)
    IN [k \in (DOMAIN rs) \cup {l} |->
           IF k = l THEN [i \in (DOMAIN rl) \cup {n} |-> IF i = n THEN x ELSE rl[i]]
           ELSE rs[k]]
\* RuleSet.setRule(label, fields, index): replaces in place, appends at
\* index = length, fails beyond
SetRule(rs, l, x, i) ==
    LET rl == RuleList(rs, l)
    IN IF i = Size(rl) THEN Done(AddRule(rs, l, x))
       ELSE IF i \in DOMAIN rl THEN Done([rs EXCEPT ![l] = [rl EXCEPT ![i] = x]])
       ELSE Failed(rs)
\* RuleSet.switchRules(label, i, j): swaps two positions, fails when either
\* is out of range
SwitchRules(rs, l, i, j) ==
    LET rl == RuleList(rs, l)
    IN IF i \in DOMAIN rl /\ j \in DOMAIN rl
       THEN Done([rs EXCEPT ![l] = [rl EXCEPT ![i] = rl[j], ![j] = rl[i]]])
       ELSE Failed(rs)
\* the list without position i (Uncompacted: the later rules keep their index)
Uncompacted(rl, i) == [j \in (DOMAIN rl) \ {i} |-> rl[j]]
Compact(rl, i) == [j \in 0..(Size(rl) - 2) |-> IF j < i THEN rl[j] ELSE rl[j + 1]]
\* RuleSet.deleteRule(label, index): removes and re-compacts, drops the label
\* with its last rule (DeleteRuleKeepLabel: the label stays, with no rule)
DeleteRuleKeepLabel(rs, l, i) ==
    LET rl == RuleList(rs, l)
    IN IF i \notin DOMAIN rl THEN Failed(rs)
       ELSE Done([rs EXCEPT ![l] = Compact(rl, i)])
DeleteRule(rs, l, i) ==
    LET rl == RuleList(rs, l)
    IN IF i \notin DOMAIN rl THEN Failed(rs)
       ELSE IF DOMAIN Compact(rl, i) = {} THEN Done(PopKey(rs, l))
       ELSE Done([rs EXCEPT ![l] = Compact(rl, i)])

\* ---------------------------------------------------------------- Init
\* last: the handler, its outcome, its input, two facts of the state it
\* started in (was the named scenario a key, was it the current one), the
\* number of flows it evicted from the live store on removing a scenario, the
\* flags <<learning, mock>> a flow listing started with, and the flows an
\* upload handed to the event loop
NoInput ==
    [name |-> "", hok |-> TRUE, ids |-> {}, recs |-> <<>>,
     flow |-> 0, label |-> "", idx |-> 0, x |-> 0]
Did(op, res, inp) ==
    [op |-> op, res |-> res, inp |-> inp,
     had |-> HasKey(scenarios, inp.name), wascur |-> (scenario = inp.name), gone |-> 0,
     flags |-> <<FALSE, FALSE>>, sched |-> <<>>]
Plain(op, res, inp) ==
    [op |-> op, res |-> res, inp |-> inp, had |-> FALSE, wascur |-> FALSE, gone |-> 0,
     flags |-> <<FALSE, FALSE>>, sched |-> <<>>]

\* wslast: the callback, its outcome, and for a broadcast the connections
\* it called write_message on and those on which the call raised
WsDid(op, res, tried, fails) == [op |-> op, res |-> res, tried |-> tried, fails |-> fails]

Init ==
    /\ scenarios = <<>>
    /\ scenario = ""
    /\ learning = FALSE
    /\ mock = FALSE
    /\ view = {}
    /\ matchers = {}
    /\ nflows = 0
    /\ last = Plain("init", "ok", NoInput)
    /\ connections = {}
    /\ life = [c \in Conns |-> "new"]
    /\ inbox = [c \in Conns |-> 0]
    /\ sent = 0
    /\ wslast = WsDid("init", "ok", {}, {})

\* -------------------------------------------------------------- handlers
\* POST /scenario/<n>
ScenarioPost(n) ==
    /\ UNCHANGED wsvars
    /\ LET sc1 == IF HasKey(scenarios, n) THEN scenarios ELSE AddScen(scenarios, n)
       IN /\ scenarios' = sc1
          /\ scenario' = SetScen(sc1, scenario, n)
          /\ last' = Plain("scenario", "ok", NoInput)
          /\ UNCHANGED <<learning, mock, view, matchers, nflows>>

\* the name DeleteScenario.post selects: keys[index-1] if index else keys[index+1]
\* (i is the 1-based position of the removed name); NeighbourWrap drops the
\* test of index, so that keys[-1] selects the last key
NeighbourWrap(keys, i) == IF i # 1 THEN keys[i - 1] ELSE keys[Len(keys)]
Neighbour(keys, i) == IF i # 1 THEN keys[i - 1] ELSE keys[i + 1]
\* the flows DeleteScenario.post hands to view.remove (EvictNone: none)
EvictNone(sc, n) == {}
Evicted(sc, n) == SeqSet(Get(sc, n).flows)

\* POST /scenario/<n>/remove
DeleteScenarioPost(n) ==
    /\ UNCHANGED wsvars
    /\ LET inp == [NoInput EXCEPT !.name = n]
       IN IF ~HasKey(scenarios, n)
          THEN \* keys.index(scenario) raises ValueError
               /\ last' = Did("remove", "ValueError", inp)
               /\ UNCHANGED <<scenarios, scenario, learning, mock, view, matchers, nflows>>
          ELSE LET keys == Keys(scenarios)
                   i == IndexOf(scenarios, n)
                   target == IF Len(keys) = 1 THEN "" ELSE Neighbour(keys, i)
               IN /\ scenario' = SetScen(scenarios, scenario, target)
                  /\ view' = ViewRemove(view, Evicted(scenarios, n))
                  /\ scenarios' = DelItem(scenarios, n)
                  /\ last' = [Did("remove", "ok", inp) EXCEPT !.gone = Cardinality(view \ view')]
                  /\ UNCHANGED <<learning, mock, matchers, nflows>>

\* the value CopyScenario.post stores under the new name (CopiedFresh: a
\* new empty scenario instead of the source's containers)
CopiedFresh(sc, cur) == Entry(cur, <<>>, <<>>)
Copied(sc, cur) == Get(sc, cur)

\* POST /scenario/<n>/copy
CopyScenarioPost(n) ==
    /\ UNCHANGED wsvars
    /\ LET inp == [NoInput EXCEPT !.name = n]
       IN IF ~HasKey(scenarios, scenario)
          THEN \* self.scenarios[self.scenario] raises KeyError
               /\ last' = Did("copy", "KeyError", inp)
               /\ UNCHANGED <<scenarios, scenario, learning, mock, view, matchers, nflows>>
          ELSE LET e == Copied(scenarios, scenario)
                   sc1 == SetItem(scenarios, n, e.flows, e.rules)
                   sc2 == DelItem(sc1, scenario)
               IN /\ scenarios' = sc2
                  /\ scenario' = SetScen(sc2, scenario, n)
                  /\ last' = Did("copy", IF SetScenOk(sc2, n) THEN "ok" ELSE "NotFoundError", inp)
                  /\ UNCHANGED <<learning, mock, view, matchers, nflows>>

\* POST /bouchon
SwitchBouchonModePost ==
    /\ UNCHANGED wsvars
    /\ /\ mock' = ~mock
       /\ last' = Plain("bouchon", "ok", NoInput)
       /\ UNCHANGED <<scenarios, scenario, learning, view, matchers, nflows>>

\* POST /learn (SwitchLearningExclusive: switching one mode on switches the
\* other off)
SwitchLearningExclusive ==
    /\ UNCHANGED wsvars
    /\ /\ learning' = ~learning
       /\ mock' = (IF ~learning THEN FALSE ELSE mock)
       /\ last' = Plain("learn", "ok", NoInput)
       /\ UNCHANGED <<scenarios, scenario, view, matchers, nflows>>
SwitchLearningPost ==
    /\ UNCHANGED wsvars
    /\ /\ learning' = ~learning
       /\ last' = Plain("learn", "ok", NoInput)
       /\ UNCHANGED <<scenarios, scenario, mock, view, matchers, nflows>>

\* DELETE /flows/<f>/rule/update
RuleHandlerDelete(f) ==
    /\ UNCHANGED wsvars
    /\ IF f \notin view
          THEN /\ last' = Plain("ruledelete", "404", NoInput)
               /\ UNCHANGED <<scenarios, scenario, learning, mock, view, matchers, nflows>>
          ELSE /\ view' = ViewRemove(view, {f})
               /\ last' = Plain("ruledelete", "ok", NoInput)
               /\ UNCHANGED <<scenarios, scenario, learning, mock, matchers, nflows>>

\* self.scenarios[self.scenario][1][flow_id] of the rule handlers
HasRuleSet(f) == HasKey(scenarios, scenario) /\ f \in DOMAIN Get(scenarios, scenario).rules
RuleSetOf(f) == Get(scenarios, scenario).rules[f]
\* a rule handler: KeyError without a RuleSet for the flow, else the outcome
\* r of the RuleSet method called on it
RuleRequest(op, f, l, i, x, r) ==
    /\ UNCHANGED wsvars
    /\ IF ~HasRuleSet(f)
          THEN /\ last' = Plain(op, "KeyError", NoInput)
               /\ UNCHANGED <<scenarios, scenario, learning, mock, view, matchers, nflows>>
          ELSE LET e == Get(scenarios, scenario)
               IN /\ scenarios' = SetItem(scenarios, scenario, e.flows, [e.rules EXCEPT ![f] = r.rs])
                  /\ last' = Plain(op, IF r.ok THEN "ok" ELSE "IndexOutOfRange",
                                   [NoInput EXCEPT !.flow = f, !.label = l, !.idx = i, !.x = x])
                  /\ UNCHANGED <<scenario, learning, mock, view, matchers, nflows>>

\* the list of the label has room for one more rule, or the update adds none
RuleRoom(f, l, i, cap) ==
    HasRuleSet(f) =>
        LET n == Size(RuleList(RuleSetOf(f), l))
        IN (i = -1 \/ i = n) => n < cap

\* Index = -1 asks for addRule, any other Index for setRule (PutRuleSetOnly:
\* setRule whatever the Index)
PutRuleSetOnly(rs, l, x, i) == SetRule(rs, l, x, i)
PutRule(rs, l, x, i) == IF i = -1 THEN Done(AddRule(rs, l, x)) ELSE SetRule(rs, l, x, i)

\* PUT /flows/<f>/rule/update
RuleHandlerPut(f, l, x, i) ==
    RuleRequest("ruleput", f, l, i, x, PutRule(RuleSetOf(f), l, x, i))

\* the neighbour a rule is swapped with (UpIndexClamped: the first rule is
\* swapped with itself)
UpIndexClamped(i) == IF i = 0 THEN i ELSE i - 1
UpIndex(i) == i - 1
DownIndex(i) == i + 1

\* POST /flows/<f>/rule/<l>/<i>/up
RuleUpPost(f, l, i) ==
    RuleRequest("ruleup", f, l, i, 0, SwitchRules(RuleSetOf(f), l, i, UpIndex(i)))

\* POST /flows/<f>/rule/<l>/<i>/down
RuleDownPost(f, l, i) ==
    RuleRequest("ruledown", f, l, i, 0, SwitchRules(RuleSetOf(f), l, i, DownIndex(i)))

\* POST /flows/<f>/rule/<l>/<i>/delete
RuleDeletePost(f, l, i) ==
    RuleRequest("ruledel", f, l, i, 0, DeleteRule(RuleSetOf(f), l, i))

\* the rules dict FlowHandler.delete leaves behind
DropRules(ru, f) == PopKey(ru, f)

\* DELETE /flows/<f>
FlowHandlerDelete(f) ==
    /\ UNCHANGED wsvars
    /\ LET fail(r) == /\ last' = Plain("flowdelete", r, NoInput)
                      /\ UNCHANGED <<scenarios, scenario, learning, mock, view, matchers, nflows>>
       IN IF f \notin view THEN fail("404")
          ELSE IF ~HasKey(scenarios, scenario) THEN fail("KeyError")
          ELSE IF f \notin SeqSet(Get(scenarios, scenario).flows) THEN fail("ValueError")
          ELSE LET e == Get(scenarios, scenario)
               IN /\ scenarios' = SetItem(scenarios, scenario, ListRemove(e.flows, f),
                                          DropRules(e.rules, f))
                  /\ view' = ViewRemove(view, {f})
                  /\ last' = Plain("flowdelete", "ok", NoInput)
                  /\ UNCHANGED <<scenario, learning, mock, matchers, nflows>>

\* the scenario whose RuleSet Flows.get reads for flow f: the last key whose
\* flow list holds f
ListedIn(sc, f) == {i \in 1..Len(sc) : f \in SeqSet(sc[i].flows)}
Listable(sc, f) ==
    ListedIn(sc, f) = {} \/
    LET i == CHOOSE k \in ListedIn(sc, f) : \A m \in ListedIn(sc, f) : m <= k
    IN f \in DOMAIN sc[i].rules

\* a mode flag after Flows.get: switched only if it was on (Switched: the
\* switch is called whatever the flag)
Switched(b) == ~b
SwitchedOff(b) == IF b THEN ~b ELSE b

\* GET /flows
FlowsGet ==
    /\ UNCHANGED wsvars
    /\ IF \E f \in view : ~Listable(scenarios, f)
       THEN /\ last' = Plain("list", "KeyError", NoInput)
            /\ UNCHANGED <<scenarios, scenario, learning, mock, view, matchers, nflows>>
       ELSE /\ mock' = SwitchedOff(mock)
            /\ learning' = SwitchedOff(learning)
            /\ last' = [Plain("list", "ok", NoInput) EXCEPT !.flags = <<learning, mock>>]
            /\ UNCHANGED <<scenarios, scenario, view, matchers, nflows>>

\* the matcher registry after the header line of an upload was evaluated
\* (RegisterLenient: the entries are registered although the line is malformed)
RegisterLenient(h, m) == m \cup h.ids
Register(h, m) == IF h.ok THEN m \cup h.ids ELSE m
\* the flows the upload evicts from the live store
Cleared(sc, cur) == IF cur # "" THEN SeqSet(Get(sc, cur).flows) ELSE {}
\* how the loop over FlowReader.stream() ends: the asyncio module has no
\* attribute call_soon, so scheduling the first decoded flow raises
StreamResult(recs) ==
    IF recs = <<>> THEN "ok"
    ELSE IF recs[1] = Bad THEN "FlowReadException" ELSE "AttributeError"

\* the flows the loop of DumpFlows.post has handed to the event loop when it
\* ends: call_soon raises before the first flow is scheduled
Scheduled(recs) == <<>>

\* GET /flows/dump: the header line maps the flow ids of the RuleSet mapping,
\* one record per flow of the flow list follows
DumpFlowsGet ==
    /\ UNCHANGED wsvars
    /\ /\ IF ~HasKey(scenarios, scenario)
          THEN last' = Plain("dump", "KeyError", NoInput)
          ELSE last' = Plain("dump", "ok",
                             [NoInput EXCEPT !.ids = DOMAIN Get(scenarios, scenario).rules,
                                             !.recs = Get(scenarios, scenario).flows])
       /\ UNCHANGED <<scenarios, scenario, learning, mock, view, matchers, nflows>>

\* the learning flag after DumpFlows.post: switched only if it was off
\* (SwitchedAlways: the switch is called whatever the flag)
SwitchedAlways(b) == ~b
SwitchedOn(b) == IF ~b THEN ~b ELSE b

\* POST /flows/dump
DumpFlowsPost(h, recs) ==
    /\ UNCHANGED wsvars
    /\ LET inp == [NoInput EXCEPT !.hok = h.ok, !.ids = h.ids, !.recs = recs]
       IN /\ learning' = SwitchedOn(learning)
          /\ IF scenario # "" /\ ~HasKey(scenarios, scenario)
             THEN \* self.scenarios[self.scenario] raises KeyError
                  /\ last' = Plain("import", "KeyError", inp)
                  /\ UNCHANGED <<scenarios, scenario, mock, view, matchers, nflows>>
             ELSE /\ view' = ViewRemove(view, Cleared(scenarios, scenario))
                  /\ scenarios' = SetItem(scenarios, scenario, <<>>, <<>>)
                  /\ matchers' = Register(h, matchers)
                  /\ last' = [Plain("import", IF h.ok THEN StreamResult(recs) ELSE "SyntaxError", inp)
                              EXCEPT !.sched = IF h.ok THEN Scheduled(recs) ELSE <<>>]
                  /\ UNCHANGED <<scenario, mock, nflows>>

\* the proxy observes a new flow: it enters the live store and, while
\* learning, the flow set of the current scenario, with an empty RuleSet
Capture ==
    /\ UNCHANGED wsvars
    /\ /\ nflows < MaxFlows
       /\ LET f == nflows + 1
          IN /\ nflows' = f
             /\ view' = view \cup {f}
             /\ IF learning /\ scenario # "" /\ HasKey(scenarios, scenario)
                THEN LET e == Get(scenarios, scenario)
                     IN scenarios' = SetItem(scenarios, scenario, Append(e.flows, f),
                                             [k \in (DOMAIN e.rules) \cup {f} |->
                                                 IF k = f THEN EmptyRuleSet ELSE e.rules[k]])
                ELSE UNCHANGED scenarios
             /\ last' = Plain("capture", "ok", NoInput)
       /\ UNCHANGED <<scenario, learning, mock, matchers>>

\* ------------------------------------------------ WebSocketEventBroadcaster
\* open()
Open(c) ==
    /\ life[c] = "new"
    /\ connections' = connections \cup {c}
    /\ life' = [life EXCEPT ![c] = "open"]
    /\ wslast' = WsDid("open", "ok", {}, {})
    /\ UNCHANGED <<inbox, sent>>
    /\ UNCHANGED vars

\* on_close(): set.remove raises KeyError for a handler whose open never ran
OnClose(c) ==
    /\ life[c] # "closed"
    /\ connections' = connections \ {c}
    /\ life' = [life EXCEPT ![c] = "closed"]
    /\ wslast' = WsDid("close", IF c \in connections THEN "ok" ELSE "KeyError", {}, {})
    /\ UNCHANGED <<inbox, sent>>
    /\ UNCHANGED vars

\* the orders in which a set can be iterated
RECURSIVE Orders(_)
Orders(S) ==
    IF S = {} THEN {<<>>}
    ELSE UNION {{<<c>> \o o : o \in Orders(S \ {c})} : c \in S}

\* the connections the loop of broadcast calls write_message on, iterating in
\* order, when the call raises on those of fails: the exception is caught and
\* logged (WrittenUncaught: the first exception ends the loop)
WrittenUncaught(order, fails) ==
    {order[i] : i \in {k \in 1..Len(order) : \A m \in 1..(k - 1) : order[m] \notin fails}}
Written(order, fails) == {order[i] : i \in 1..Len(order)}

\* broadcast(**kwargs)
Broadcast(order, fails) ==
    /\ sent < MaxMsgs
    /\ sent' = sent + 1
    /\ inbox' = [c \in Conns |->
                    IF c \in Written(order, fails) \ fails THEN inbox[c] + 1 ELSE inbox[c]]
    /\ wslast' = WsDid("broadcast", "ok", Written(order, fails), fails)
    /\ UNCHANGED <<connections, life>>
    /\ UNCHANGED vars

NextWS ==
    \/ \E c \in Conns : Open(c)
    \/ \E c \in Conns : OnClose(c)
    \/ \E order \in Orders(connections), fails \in SUBSET connections : Broadcast(order, fails)

SpecWS == Init /\ [][NextWS]_wsvars

Next ==
    \/ \E n \in Names : ScenarioPost(n)
    \/ \E n \in Names : DeleteScenarioPost(n)
    \/ \E n \in Names : CopyScenarioPost(n)
    \/ SwitchBouchonModePost
    \/ SwitchLearningPost
    \/ \E f \in Flows : RuleHandlerDelete(f)
    \/ \E f \in Flows, l \in Labels, x \in Fields :
            RuleRoom(f, l, -1, MaxRules) /\ RuleHandlerPut(f, l, x, -1)
    \/ \E f \in Flows : FlowHandlerDelete(f)
    \/ FlowsGet
    \/ \E h \in Headers, recs \in Streams : DumpFlowsPost(h, recs)
    \/ Capture

Spec == Init /\ [][Next]_vars

\* export and import of captures with up to MaxStream records
NextImport ==
    \/ \E n \in Names : ScenarioPost(n)
    \/ SwitchLearningPost
    \/ Capture
    \/ DumpFlowsGet
    \/ \E h \in LongHeaders, recs \in LongStreams : DumpFlowsPost(h, recs)

SpecImport == Init /\ [][NextImport]_vars

\* the rule requests on the flows captured into scenarios
NextRules ==
    \/ \E n \in RuleNames : ScenarioPost(n)
    \/ SwitchLearningPost
    \/ Capture
    \/ \E f \in Flows, l \in Labels, x \in RuleFields, i \in PutIndices :
            RuleRoom(f, l, i, MaxList) /\ RuleHandlerPut(f, l, x, i)
    \/ \E f \in Flows, l \in Labels, i \in Indices : RuleUpPost(f, l, i)
    \/ \E f \in Flows, l \in Labels, i \in Indices : RuleDownPost(f, l, i)
    \/ \E f \in Flows, l \in Labels, i \in Indices : RuleDeletePost(f, l, i)

SpecRules == Init /\ [][NextRules]_vars

TypeOK ==
    /\ scenario \in Names
    /\ learning \in BOOLEAN /\ mock \in BOOLEAN
    /\ view \subseteq Flows
    /\ nflows \in 0..MaxFlows
    /\ \A i, j \in 1..Len(scenarios) : scenarios[i].name = scenarios[j].name => i = j

\* ------------------------------------------------------------------ claims
Current == Get(scenarios, scenario)
Others(a, b) == {n \in Names \ {a, b} : HasKey(scenarios, n)}
SameEntry(n) == HasKey(scenarios', n) /\ Get(scenarios', n) = Get(scenarios, n)

\* C1: in every reachable state current is the empty string or a key of the
\* scenario mapping.
C1_CurrentIsKey == scenario = "" \/ HasKey(scenarios, scenario)

\* C2: removing the current scenario sets current to "" when it was the only
\* scenario, otherwise to its predecessor in insertion order, or to its
\* successor when it was first; afterwards current names a remaining scenario
\* if any remain and is "" otherwise.
C2_RemoveCurrentReselects ==
    [][(last'.op = "remove" /\ last'.res = "ok" /\ last'.wascur) =>
        LET keys == Keys(scenarios)
            i == IndexOf(scenarios, last'.inp.name)
        IN /\ scenario' = (IF Len(keys) = 1 THEN ""
                           ELSE IF i > 1 THEN keys[i - 1] ELSE keys[2])
           /\ IF scenarios' = <<>> THEN scenario' = ""
              ELSE HasKey(scenarios', scenario')]_vars
\* the current scenario was removed and two scenarios remain
C2_Witness ==
    /\ last.op = "remove" /\ last.res = "ok" /\ last.wascur
    /\ Len(scenarios) = 2
    /\ HasKey(scenarios, scenario)

\* C3: copyScenario(src, dst) with src present and dst absent removes the key
\* src, stores under dst exactly the flow set and RuleSet mapping src had,
\* sets current = dst and leaves every other scenario entry unchanged.
C3_CopyMoves ==
    [][(last'.op = "copy" /\ last'.res = "ok" /\ ~last'.had) =>
        LET src == scenario
            dst == last'.inp.name
        IN /\ ~HasKey(scenarios', src)
           /\ HasKey(scenarios', dst)
           /\ Get(scenarios', dst).flows = Get(scenarios, src).flows
           /\ Get(scenarios', dst).rules = Get(scenarios, src).rules
           /\ scenario' = dst
           /\ \A n \in Names \ {src, dst} : HasKey(scenarios', n) = HasKey(scenarios, n)
           /\ \A n \in Others(src, dst) : SameEntry(n)]_vars
\* a scenario holding a flow with a rule was copied to a new name while
\* another scenario existed
C3_Witness ==
    /\ last.op = "copy" /\ last.res = "ok" /\ ~last.had
    /\ Len(scenarios) = 2
    /\ HasKey(scenarios, scenario)
    /\ \E f \in SeqSet(Current.flows) : Current.rules[f] # EmptyRuleSet

\* C4: copyScenario onto a name that already exists (the source name
\* included) fails and leaves the scenario mapping and current unchanged.
C4_CopyOntoExistingFails ==
    [][(last'.op = "copy" /\ last'.had) =>
        /\ last'.res # "ok"
        /\ scenarios' = scenarios
        /\ scenario' = scenario]_vars

\* every flow id keyed in a scenario's RuleSet mapping is in its flow set
RuleKeysAreFlows ==
    \A i \in 1..Len(scenarios) : DOMAIN scenarios[i].rules \subseteq SeqSet(scenarios[i].flows)
InNoScenario(sc, f) ==
    \A i \in 1..Len(sc) : f \notin SeqSet(sc[i].flows) /\ f \notin DOMAIN sc[i].rules

\* C5: every flow id keyed in a scenario's RuleSet mapping is a member of
\* that scenario's flow set, and every operation that removes a flow from
\* the live store (flow delete, the delete on the rule-update route, the
\* clearing step of import) removes it from the flow set together with its
\* RuleSet entry.
C5_RemovalCleansScenario ==
    [][/\ RuleKeysAreFlows'
       /\ \A f \in view \ view' : InNoScenario(scenarios', f)]_vars

\* C6: after removeScenario(name) succeeds name is no key, none of the flows
\* of its flow set is in the live store, and every other scenario keeps its
\* flow set and RuleSet mapping.
C6_RemoveEvicts ==
    [][(last'.op = "remove" /\ last'.res = "ok") =>
        LET n == last'.inp.name
        IN /\ ~HasKey(scenarios', n)
           /\ \A f \in SeqSet(Get(scenarios, n).flows) : f \notin view'
           /\ \A m \in Others(n, n) : SameEntry(m)]_vars
\* the removal of a scenario evicted a flow from the live store while a
\* remaining scenario holds a flow with a rule that is still in the store
C6_Witness ==
    /\ last.op = "remove" /\ last.res = "ok" /\ last.gone = 1
    /\ \E i \in 1..Len(scenarios) : \E f \in SeqSet(scenarios[i].flows) \cap view :
          scenarios[i].rules[f] # EmptyRuleSet

\* C7: after an import whose stream decodes without error to flows f1..fn,
\* once no ingestion task is outstanding every fi is in the live store and
\* in the flow set of the scenario that was current at the import.
C7_ImportedFlowsLand ==
    (/\ last.op = "import" /\ last.res # "KeyError" /\ last.inp.hok
     /\ \A i \in 1..Len(last.inp.recs) : last.inp.recs[i] # Bad)
    => \A i \in 1..Len(last.inp.recs) :
          /\ last.inp.recs[i] \in view
          /\ HasKey(scenarios, scenario)
          /\ last.inp.recs[i] \in SeqSet(Current.flows)

\* C8: right after the synchronous part of an import every flow that was in
\* the flow set of the current scenario has left the live store, and the
\* flow set and the RuleSet mapping of that scenario are empty.
C8_ImportReplaces ==
    [][(last'.op = "import" /\ last'.res # "KeyError") =>
        /\ HasKey(scenarios, scenario) =>
              \A f \in SeqSet(Current.flows) : f \notin view'
        /\ HasKey(scenarios', scenario')
        /\ Get(scenarios', scenario').flows = <<>>
        /\ Get(scenarios', scenario').rules = <<>>]_vars

\* C9: an import whose header line is malformed fails before any ingestion:
\* it registers no matcher, never reaches the scheduling of a flow and adds
\* no flow to the live store.
C9_BadHeaderIngestsNothing ==
    [][(last'.op = "import" /\ ~last'.inp.hok) =>
        /\ last'.res \in {"SyntaxError", "KeyError"}
        /\ matchers' = matchers
        /\ view' \subseteq view]_vars
\* an upload with a malformed header and a decodable flow record failed at
\* the header while the live store held a flow and no matcher was registered
C9_Witness ==
    /\ last.op = "import" /\ ~last.inp.hok /\ last.res = "SyntaxError"
    /\ last.inp.recs = <<1>>
    /\ matchers = {}
    /\ view # {}

\* C10: an import that fails on a malformed header mutates nothing: the
\* scenario mapping, the live store and the learning and mock flags are as
\* before the call.
C10_BadHeaderMutatesNothing ==
    [][(last'.op = "import" /\ ~last'.inp.hok) =>
        /\ scenarios' = scenarios
        /\ view' = view
        /\ learning' = learning
        /\ mock' = mock]_vars

\* C14: a flow listing leaves both mode flags off, whatever their values
\* before the listing; a flag that was off is not switched on.
C14_ListingSwitchesOff ==
    (last.op = "list" /\ last.res = "ok") => (~learning /\ ~mock)
\* a listing was served while learning was on and mock off
C14_Witness ==
    /\ last.op = "list" /\ last.res = "ok"
    /\ last.flags = <<TRUE, FALSE>>
    /\ ~learning /\ ~mock

\* C15: switchLearning negates learning and leaves mock, current and the
\* scenario mapping unchanged; switchMock negates mock and leaves learning,
\* current and the scenario mapping unchanged; both flags can be on together.
C15_FlagsIndependent ==
    [][/\ last'.op = "learn" =>
             /\ learning' = ~learning
             /\ mock' = mock /\ scenario' = scenario /\ scenarios' = scenarios
       /\ last'.op = "bouchon" =>
             /\ mock' = ~mock
             /\ learning' = learning /\ scenario' = scenario /\ scenarios' = scenarios]_vars
\* learning was switched on while mock was on
C15_Witness ==
    /\ last.op = "learn"
    /\ learning /\ mock

Decodable(recs) == \A i \in 1..Len(recs) : recs[i] # Bad
ImportRan == last.op = "import" /\ last.res # "KeyError" /\ last.inp.hok

\* C11: within one import the flows are enqueued for ingestion in the order
\* in which they were decoded from the stream.
C11_EnqueuedInDecodeOrder ==
    (ImportRan /\ Decodable(last.inp.recs)) => last.sched = last.inp.recs

\* C12: when the k-th record of an imported stream is malformed the import
\* ends with the decoder's error, and exactly the k-1 flows decoded before it
\* are enqueued.
C12_BadRecordKeepsPrefix ==
    (ImportRan /\ ~Decodable(last.inp.recs)) =>
        LET recs == last.inp.recs
            k == CHOOSE i \in 1..Len(recs) : recs[i] = Bad /\ \A j \in 1..(i - 1) : recs[j] # Bad
        IN /\ last.res = "FlowReadException"
           /\ last.sched = SubSeq(recs, 1, k - 1)

\* C13: exporting the current scenario and importing the result, with nothing
\* in between, yields a scenario with the same flow set and the same RuleSets.
C13_RoundTrip ==
    [][(/\ last.op = "dump" /\ last.res = "ok"
        /\ last'.op = "import" /\ last'.inp.hok
        /\ last'.inp.ids = last.inp.ids /\ last'.inp.recs = last.inp.recs) =>
        /\ HasKey(scenarios', scenario')
        /\ SeqSet(Get(scenarios', scenario').flows) = SeqSet(Current.flows)
        /\ Get(scenarios', scenario').rules = Current.rules]_vars

\* the rule list the last rule request addressed, as it is now, and in the
\* step of a rule request the list before and after it
LastList == RuleList(Current.rules[last.inp.flow], last.inp.label)
OldList == RuleList(Current.rules[last'.inp.flow], last'.inp.label)
NewSet == Get(scenarios', scenario').rules[last'.inp.flow]
NewList == RuleList(NewSet, last'.inp.label)
RuleRan(op) == last'.op = op /\ last'.res # "KeyError"

\* C16: moving the rule at index 0 up, or the rule at the last index down,
\* fails with an index error and leaves the scenarios, so the order of the
\* label's rules, as they were.
C16_BoundaryMoveRejected ==
    [][/\ (RuleRan("ruleup") /\ last'.inp.idx = 0) =>
             (last'.res = "IndexOutOfRange" /\ scenarios' = scenarios)
       /\ (RuleRan("ruledown") /\ last'.inp.idx = Size(OldList) - 1) =>
             (last'.res = "IndexOutOfRange" /\ scenarios' = scenarios)]_vars
C16_Witness ==
    /\ last.op = "ruledown" /\ last.res = "IndexOutOfRange"
    /\ Size(LastList) >= 2
    /\ last.inp.idx = Size(LastList) - 1

\* C17: whatever rule requests were served, the rules under every label of
\* every RuleSet occupy exactly the indices 0..n-1, n the number of rules
\* stored under the label.
C17_IndicesDense ==
    \A s \in 1..Len(scenarios) : \A f \in DOMAIN scenarios[s].rules :
        \A l \in DOMAIN scenarios[s].rules[f] :
            LET rl == scenarios[s].rules[f][l]
            IN DOMAIN rl = 0..(Size(rl) - 1)
C17_Witness ==
    /\ last.op = "ruledel" /\ last.res = "ok"
    /\ Size(LastList) >= 2
    /\ last.inp.idx = 0

\* C18: a rule update with Index = n (the length of the label's list) or
\* Index = -1 appends the rule and keeps the others, with 0 <= Index < n it
\* replaces the rule at Index and keeps the others, with Index > n it fails
\* with an index error and changes nothing.
C18_SetRuleByIndex ==
    [][RuleRan("ruleput") =>
          LET i == last'.inp.idx
              n == Size(OldList)
          IN /\ (i = n \/ i = -1) =>
                    /\ last'.res = "ok"
                    /\ NewList = [j \in 0..n |-> IF j = n THEN last'.inp.x ELSE OldList[j]]
             /\ (0 <= i /\ i < n) =>
                    /\ last'.res = "ok"
                    /\ NewList = [j \in 0..(n - 1) |-> IF j = i THEN last'.inp.x ELSE OldList[j]]
             /\ i > n =>
                    /\ last'.res = "IndexOutOfRange"
                    /\ scenarios' = scenarios]_vars
C18_Witness ==
    /\ last.op = "ruleput" /\ last.res = "ok"
    /\ last.inp.idx = -1
    /\ Size(LastList) >= 2
    /\ LastList[Size(LastList) - 1] = last.inp.x
    /\ LastList[0] # last.inp.x

\* C19: deleting the rule at a valid index succeeds, keeps the rules below
\* it in place, shifts the rules above it down by one in their order, and
\* removes the label from the RuleSet when it was the label's only rule.
C19_DeleteCompacts ==
    [][(RuleRan("ruledel") /\ last'.inp.idx < Size(OldList)) =>
          LET i == last'.inp.idx
              n == Size(OldList)
          IN /\ last'.res = "ok"
             /\ IF n = 1
                THEN last'.inp.label \notin DOMAIN NewSet
                ELSE /\ last'.inp.label \in DOMAIN NewSet
                     /\ NewList = [j \in 0..(n - 2) |->
                                      IF j < i THEN OldList[j] ELSE OldList[j + 1]]]_vars
C19_Witness ==
    /\ last.op = "ruledel" /\ last.res = "ok"
    /\ last.inp.label \notin DOMAIN Current.rules[last.inp.flow]

\* C20: after every websocket callback the connection set holds exactly the
\* handlers whose open ran and whose on_close did not; a broadcast calls
\* write_message on every connection of the set, and every connection on
\* which the call does not raise gets the message, whatever raised on others.
C20_BroadcastReachesAll ==
    [][/\ connections' = {c \in Conns : life'[c] = "open"}
       /\ wslast'.op = "broadcast" =>
             /\ wslast'.tried = connections
             /\ \A c \in connections \ wslast'.fails : inbox'[c] = inbox[c] + 1]_wsvars
C20_Witness ==
    /\ wslast.op = "broadcast"
    /\ wslast.fails # {}
    /\ \E c \in wslast.tried \ wslast.fails : inbox[c] = sent
    /\ \E c \in Conns : life[c] = "closed" /\ c \notin connections /\ inbox[c] < sent

\* C21: removing a scenario that is not the current one leaves current
\* unchanged.
C21_RemoveOtherKeepsCurrent ==
    [][(last'.op = "remove" /\ last'.res = "ok" /\ ~last'.wascur) =>
          scenario' = scenario]_vars

\* C22: after an import request, whatever its outcome and whatever the
\* learning flag was, learning is on and the mock flag is what it was.
C22_ImportForcesLearning ==
    [][last'.op = "import" => (learning' /\ mock' = mock)]_vars
C22_Witness ==
    /\ last.op = "import" /\ last.res = "AttributeError"
    /\ learning /\ mock
====
